---- MODULE Spec2Model ----
\* A model of the peer-to-peer recipe node of src/src/main.rs: the event loop
\* (user lines, swarm events, queued responses), the mDNS and floodsub event
\* handlers, the recipe catalog file and the response-construction task.
\*
\* Text (command lines, peer id strings, record fields) is a sequence of
\* one-character strings, so that prefix stripping, splitting, trimming and
\* number parsing are computed as the code computes them.
EXTENDS Integers, Sequences, FiniteSets

\* ---------------------------------------------------------------- bounds
MaxRecipes == 2      \* creates accepted per node in Spec and SpecTask
MaxNetRecipes == 1   \* creates accepted per node in SpecNet
MaxTasks == 1        \* response tasks pending per node (SpecTask)
MaxQueue == 1        \* responses waiting in the channel per node (SpecTask)

\* ---------------------------------------------------------------- text
Digits == <<"0", "1", "2", "3", "4", "5", "6", "7", "8", "9">>

IsDigit(c) == \E i \in DOMAIN Digits : Digits[i] = c

DigitVal(c) == (CHOOSE i \in DOMAIN Digits : Digits[i] = c) - 1

\* str::starts_with
StartsWith(s, p) == Len(s) >= Len(p) /\ SubSeq(s, 1, Len(p)) = p

\* str::strip_prefix: Some(rest) or None
StripPrefix(s, p) ==
    IF StartsWith(s, p)
    THEN [some |-> TRUE, rest |-> SubSeq(s, Len(p) + 1, Len(s))]
    ELSE [some |-> FALSE, rest |-> <<>>]

RECURSIVE TrimStart(_)
TrimStart(s) == IF s # <<>> /\ Head(s) = " " THEN TrimStart(Tail(s)) ELSE s

RECURSIVE TrimEnd(_)
TrimEnd(s) ==
    IF s # <<>> /\ s[Len(s)] = " " THEN TrimEnd(SubSeq(s, 1, Len(s) - 1)) ELSE s

\* str::trim
Trim(s) == TrimEnd(TrimStart(s))

\* str::split on a one-character separator: k separators give k + 1 pieces
RECURSIVE SplitFrom(_, _, _)
SplitFrom(s, sep, cur) ==
    IF s = <<>> THEN <<cur>>
    ELSE IF Head(s) = sep THEN <<cur>> \o SplitFrom(Tail(s), sep, <<>>)
    ELSE SplitFrom(Tail(s), sep, Append(cur, Head(s)))

Split(s, sep) == SplitFrom(s, sep, <<>>)

RECURSIVE DigitsValue(_, _)
DigitsValue(s, acc) ==
    IF s = <<>> THEN acc ELSE DigitsValue(Tail(s), acc * 10 + DigitVal(Head(s)))

\* str::parse::<usize>: an optional "+", then at least one digit, nothing else
ParseUsize(s) ==
    LET body == IF s # <<>> /\ Head(s) = "+" THEN Tail(s) ELSE s
    IN  IF body # <<>> /\ \A i \in DOMAIN body : IsDigit(body[i])
        THEN [ok |-> TRUE, val |-> DigitsValue(body, 0)]
        ELSE [ok |-> FALSE, val |-> 0]

Range(s) == {s[i] : i \in DOMAIN s}

\* ---------------------------------------------------------------- identities
Nodes == {"A", "B"}

\* PEER_ID.to_string() of a peer; "F" is a peer that is not one of the nodes
PeerIdString(p) == <<p>>

Foreign == "F"

Addrs == {1, 2}

\* ---------------------------------------------------------------- wire format
ModeAll == [tag |-> "ALL", id |-> <<>>]

ModeOne(s) == [tag |-> "One", id |-> s]

\* serde_json::to_string(&ListRequest{mode}): an object with the field "mode"
JsonListRequest(mode) == [mode |-> mode]

\* serde_json::to_string(&ListResponse{mode, data, receiver})
JsonListResponse(resp) ==
    [mode |-> resp.mode, data |-> resp.data, receiver |-> resp.receiver]

\* a payload that is no object with a "mode" field
JunkPayload == [junk |-> TRUE]

NoData == [none |-> TRUE]

\* serde_json::from_slice::<ListResponse>: every field of the struct must be there
DecodeResponse(p) ==
    IF {"mode", "data", "receiver"} \subseteq DOMAIN p
    THEN [ok |-> TRUE, mode |-> p.mode, data |-> p.data, receiver |-> p.receiver]
    ELSE [ok |-> FALSE, mode |-> ModeAll, data |-> <<>>, receiver |-> <<>>]

\* serde_json::from_slice::<ListRequest>: fields the struct lacks are ignored
DecodeRequest(p) ==
    IF "mode" \in DOMAIN p
    THEN [ok |-> TRUE, mode |-> p.mode]
    ELSE [ok |-> FALSE, mode |-> ModeAll]

\* ---------------------------------------------------------------- commands
LsP == <<"l", "s", " ", "p">>

LsR == <<"l", "s", " ", "r">>

CreateR == <<"c", "r", "e", "a", "t", "e", " ", "r">>

PublishR == <<"p", "u", "b", "l", "i", "s", "h", " ", "r">>

AllWord == <<"a", "l", "l">>

LsRAll == LsR \o <<" ">> \o AllWord

LsRAllGlued == LsR \o AllWord

LsRPeer(p) == LsR \o <<" ">> \o PeerIdString(p)

LsRPeerGlued(p) == LsR \o PeerIdString(p)

CreateSoup == CreateR \o <<" ", "S", "|", "w", "|", "b">>

CreateTwoFields == CreateR \o <<" ", "S", "|", "w">>

PublishId(c) == PublishR \o <<" ", c>>

PublishNoId == PublishR

Help == <<"h", "e", "l", "p">>

\* the lines the user types at a node whose peer is p
UserLines(p) ==
    { LsP, LsR, LsRAll, LsRAllGlued, LsRPeer(p), LsRPeerGlued(p),
      CreateSoup, CreateTwoFields,
      PublishId("0"), PublishId("7"), PublishId("x"), PublishNoId, Help }

\* the lines that change the catalog
TaskLines == {CreateSoup, PublishId("0")}

\* the lines of the two-node scenario
NetLines == {LsP, LsRAll, LsRAllGlued, CreateSoup, PublishId("0")}

\* ---------------------------------------------------------------- catalog
Recipe(id, name, ingredients, instructions, public) ==
    [id |-> id, name |-> name, ingredients |-> ingredients,
     instructions |-> instructions, public |-> public]

Max(S) == CHOOSE x \in S : \A y \in S : y <= x

\* what a handler did: the loop's fate, the catalog file, the payloads it
\* published, what it reported and how its Store calls ended
Effect(pcv, catalog, publish, report, io) ==
    [pc |-> pcv, catalog |-> catalog, publish |-> publish, report |-> report, io |-> io]

\* an id assignment that forgets the increment
NewIdNoIncrement(catalog) ==
    IF catalog = <<>> THEN 0 ELSE Max({catalog[i].id : i \in DOMAIN catalog})

\* the id create_new_recipe gives the next record
NewId(catalog) ==
    IF catalog = <<>> THEN 0 ELSE Max({catalog[i].id : i \in DOMAIN catalog}) + 1

\* a create that puts the new record in front of the others
create_new_recipe_in_front(catalog, name, ingredients, instructions, rd, wr) ==
    IF ~rd THEN [ok |-> FALSE, catalog |-> catalog, io |-> "read_failed"]
    ELSE IF ~wr THEN [ok |-> FALSE, catalog |-> catalog, io |-> "write_failed"]
    ELSE [ok |-> TRUE,
          catalog |-> <<Recipe(NewId(catalog), name, ingredients, instructions, FALSE)>>
                      \o catalog,
          io |-> "ok"]

\* create_new_recipe: [ok, catalog, io]; rd and wr say whether the Store read
\* and the Store write succeed
create_new_recipe(catalog, name, ingredients, instructions, rd, wr) ==
    IF ~rd THEN [ok |-> FALSE, catalog |-> catalog, io |-> "read_failed"]
    ELSE IF ~wr THEN [ok |-> FALSE, catalog |-> catalog, io |-> "write_failed"]
    ELSE [ok |-> TRUE,
          catalog |-> Append(catalog,
                             Recipe(NewId(catalog), name, ingredients, instructions, FALSE)),
          io |-> "ok"]

handle_create_recipes(catalog, cmd, rd, wr) ==
    LET rest == StripPrefix(cmd, CreateR)
        elements == Split(rest.rest, "|")
    IN  IF ~rest.some THEN Effect("running", catalog, {}, "none", "none")
        ELSE IF Len(elements) < 3
        THEN Effect("running", catalog, {}, "too_few_arguments", "none")
        ELSE LET r == create_new_recipe(catalog, elements[1], elements[2], elements[3], rd, wr)
             IN  IF r.ok THEN Effect("running", r.catalog, {}, "created", r.io)
                 ELSE Effect("panicked", r.catalog, {}, "panic_error_creating_recipe", r.io)

\* a publish that drops the filter on the id
PublishTargetsAll(catalog, id) == DOMAIN catalog

\* the records publish_recipe sets the flag of
PublishTargets(catalog, id) == {i \in DOMAIN catalog : catalog[i].id = id}

\* publish_recipe: [ok, catalog, io]
publish_recipe(catalog, id, rd, wr) ==
    IF ~rd THEN [ok |-> FALSE, catalog |-> catalog, io |-> "read_failed"]
    ELSE IF ~wr THEN [ok |-> FALSE, catalog |-> catalog, io |-> "write_failed"]
    ELSE [ok |-> TRUE,
          catalog |-> [i \in DOMAIN catalog |->
                          IF i \in PublishTargets(catalog, id)
                          THEN [catalog[i] EXCEPT !.public = TRUE]
                          ELSE catalog[i]],
          io |-> "ok"]

handle_publish_recipes(catalog, cmd, rd, wr) ==
    LET rest == StripPrefix(cmd, PublishR)
        id == ParseUsize(Trim(rest.rest))
    IN  IF ~rest.some THEN Effect("running", catalog, {}, "none", "none")
        ELSE IF ~id.ok
        THEN Effect("panicked", catalog, {}, "panic_invalid_id", "none")
        ELSE LET r == publish_recipe(catalog, id.val, rd, wr)
             IN  IF r.ok THEN Effect("running", r.catalog, {}, "successful_publication", r.io)
                 ELSE Effect("running", r.catalog, {}, "error_publishing", r.io)

handle_list_recipes(catalog, cmd, rd) ==
    LET rest == StripPrefix(cmd, LsR)
    IN  IF rest.some /\ rest.rest = AllWord
        THEN Effect("running", catalog, {JsonListRequest(ModeAll)}, "none", "none")
        ELSE IF rest.some
        THEN Effect("running", catalog, {JsonListRequest(ModeOne(rest.rest))}, "none", "none")
        ELSE IF rd THEN Effect("running", catalog, {}, "local_recipes", "ok")
        ELSE Effect("running", catalog, {}, "error_fetching_local_recipes", "read_failed")

handle_list_peers(catalog) == Effect("running", catalog, {}, "discovered_peers", "none")

\* the match on the input line in main
Dispatch(catalog, line, rd, wr) ==
    IF line = LsP THEN handle_list_peers(catalog)
    ELSE IF StartsWith(line, LsR) THEN handle_list_recipes(catalog, line, rd)
    ELSE IF StartsWith(line, CreateR) THEN handle_create_recipes(catalog, line, rd, wr)
    ELSE IF StartsWith(line, PublishR) THEN handle_publish_recipes(catalog, line, rd, wr)
    ELSE Effect("panicked", catalog, {}, "panic_unknown_command", "none")

\* ---------------------------------------------------------------- state
VARIABLES
    pc,        \* per node: "running", or "panicked" once main has panicked
    recipes,   \* per node: the catalog in the storage file, a sequence of records
    mdns,      \* per node: the <<peer, address>> entries mDNS holds
    view,      \* per node: the floodsub partial view, a set of peers
    net,       \* the floodsub messages in flight: [to, source, data]
    tasks,     \* per node: the receivers of the response tasks spawned, not yet run
    queue,     \* per node: the ListResponses in the response channel
    out,       \* per node: the records surfaced from responses addressed to it
    ev         \* the last step: which node handled what, and what it reported

vars == <<pc, recipes, mdns, view, net, tasks, queue, out, ev>>

Event(n, kind, line, src, data, report, io) ==
    [node |-> n, kind |-> kind, line |-> line, src |-> src, data |-> data,
     report |-> report, io |-> io]

Init ==
    /\ pc = [n \in Nodes |-> "running"]
    /\ recipes = [n \in Nodes |-> <<>>]
    /\ mdns = [n \in Nodes |-> {}]
    /\ view = [n \in Nodes |-> {}]
    /\ net = {}
    /\ tasks = [n \in Nodes |-> <<>>]
    /\ queue = [n \in Nodes |-> <<>>]
    /\ out = [n \in Nodes |-> {}]
    /\ ev = Event("A", "start", <<>>, <<>>, NoData, "none", "none")

\* ---------------------------------------------------------------- user input
\* a publish that reaches every node, in the partial view or not
FloodsubPublishToAll(n, payloads) ==
    {[to |-> p, source |-> PeerIdString(n), data |-> d] : p \in Nodes \ {n}, d \in payloads}

\* the peers handle_list_peers prints: the nodes mDNS holds, without duplicates
ListedPeers(entries) == {e[1] : e \in entries}

\* floodsub.publish: one message to every peer of the partial view
FloodsubPublish(n, payloads) ==
    {[to |-> p, source |-> PeerIdString(n), data |-> d] : p \in view[n], d \in payloads}

\* one line of standard input drawn by the loop and dispatched; cap bounds the
\* catalog's length
Input(n, line, cap) ==
    /\ pc[n] = "running"
    /\ StartsWith(line, CreateR) => Len(recipes[n]) < cap
    /\ \E rd \in BOOLEAN, wr \in BOOLEAN :
          LET e == Dispatch(recipes[n], line, rd, wr)
          IN  /\ pc' = [pc EXCEPT ![n] = e.pc]
              /\ recipes' = [recipes EXCEPT ![n] = e.catalog]
              /\ net' = net \cup FloodsubPublish(n, e.publish)
              /\ ev' = Event(n, "input", line, <<>>,
                             IF e.report = "discovered_peers"
                             THEN [peers |-> ListedPeers(mdns[n])]
                             ELSE NoData,
                             e.report, e.io)
    /\ UNCHANGED <<mdns, view, tasks, queue, out>>

\* standard input ends: next_line gives Ok(None) and the second expect panics
Eof(n) ==
    /\ pc[n] = "running"
    /\ pc' = [pc EXCEPT ![n] = "panicked"]
    /\ ev' = Event(n, "eof", <<>>, <<>>, NoData, "panic_can_read_line", "none")
    /\ UNCHANGED <<recipes, mdns, view, net, tasks, queue, out>>

\* ---------------------------------------------------------------- floodsub
\* the second decode of inject_event, at the branch commented "case for request"
RequestDecode(p) == DecodeResponse(p)

\* a handler that decodes the request shape and answers whatever the mode
RespondToAnyMode(self, m) ==
    IF DecodeResponse(m.data).ok \/ ~DecodeRequest(m.data).ok THEN <<>>
    ELSE <<m.source>>

\* a handler that tries the request shape before the response shape
RespondToRequestFirst(self, m) ==
    LET req == DecodeRequest(m.data)
    IN  IF ~req.ok THEN <<>>
        ELSE IF req.mode.tag = "ALL" THEN <<m.source>>
        ELSE IF req.mode.id = PeerIdString(self) THEN <<m.source>>
        ELSE <<>>

\* the request branch of inject_event: the receivers it calls
\* respond_with_public_recipes with
RespondTo(self, m) ==
    LET req == RequestDecode(m.data)
    IN  IF DecodeResponse(m.data).ok \/ ~req.ok THEN <<>>
        ELSE IF req.mode.tag = "ALL" THEN <<m.source>>
        ELSE IF req.mode.id = PeerIdString(self) THEN <<m.source>>
        ELSE <<>>

\* a handler that surfaces a response whoever its receiver is
SurfacedAnyReceiver(self, m) ==
    LET resp == DecodeResponse(m.data)
    IN  IF resp.ok THEN Range(resp.data) ELSE {}

\* the response branch of inject_event: the records it logs
Surfaced(self, m) ==
    LET resp == DecodeResponse(m.data)
    IN  IF resp.ok /\ resp.receiver = PeerIdString(self) THEN Range(resp.data) ELSE {}

MessageReport(self, m) ==
    LET resp == DecodeResponse(m.data)
    IN  IF resp.ok /\ resp.receiver = PeerIdString(self) THEN "response_from"
        ELSE IF RespondTo(self, m) # <<>> THEN "received_req"
        ELSE "none"

\* a handler that unwraps the decoded request instead of testing it
MessageFateUnwrap(self, m) ==
    IF DecodeResponse(m.data).ok \/ DecodeRequest(m.data).ok THEN "running" ELSE "panicked"

\* what becomes of the node when it handles m: both decodes are tested with
\* `if let Ok`, and a payload that fails both falls through
MessageFate(self, m) == "running"

\* inject_event(FloodsubEvent::Message(m)) at node n
OnMessage(n, m) ==
    /\ pc[n] = "running"
    /\ Len(tasks[n]) + Len(RespondTo(n, m)) <= MaxTasks
    /\ pc' = [pc EXCEPT ![n] = MessageFate(n, m)]
    /\ out' = [out EXCEPT ![n] = @ \cup Surfaced(n, m)]
    /\ tasks' = [tasks EXCEPT ![n] = @ \o RespondTo(n, m)]
    /\ ev' = Event(n, "message", <<>>, m.source, m.data, MessageReport(n, m), "none")
    /\ UNCHANGED <<recipes, mdns, view, queue>>

Soup(id, public) == Recipe(id, <<" ", "S">>, <<"w">>, <<"b">>, public)

\* what a peer that is not one of the nodes puts on the topic
ForeignPayloads ==
    {JsonListRequest(ModeAll), JunkPayload}
    \cup {JsonListRequest(ModeOne(PeerIdString(x))) : x \in Nodes}
    \cup {JsonListResponse([mode |-> ModeAll, data |-> d, receiver |-> PeerIdString(x)]) :
            x \in Nodes, d \in {<<>>, <<Soup(0, TRUE)>>}}

\* a message of a foreign peer arrives at n
DeliverForeign(n) ==
    /\ \E p \in ForeignPayloads :
          OnMessage(n, [to |-> n, source |-> PeerIdString(Foreign), data |-> p])
    /\ UNCHANGED net

\* a message another node published arrives at n
DeliverNet(n) ==
    \E m \in net :
        /\ m.to = n
        /\ OnMessage(n, m)
        /\ net' = net \ {m}

\* ---------------------------------------------------------------- mDNS
Peers(n) == Nodes \ {n}

PeersOf(S) == {e[1] : e \in S}

\* Mdns::has_node
HasNode(entries, p) == \E e \in entries : e[1] = p

\* an Expired branch that does not ask mDNS before it removes
ExpiredRemovalsUnchecked(entries, S) == PeersOf(S)

\* the peers the Expired branch removes from the partial view; entries are the
\* entries mDNS still holds
ExpiredRemovals(entries, S) == {p \in PeersOf(S) : ~HasNode(entries, p)}

\* a partial view that drops a peer it is told of again
AddToPartialViewToggle(v, S) == (v \ PeersOf(S)) \cup (PeersOf(S) \ v)

\* the Discovered branch: add_node_to_partial_view for every peer of the list
AddToPartialView(v, S) == v \cup PeersOf(S)

\* MdnsEvent::Discovered(S) at node n
Discovered(n, S) ==
    /\ pc[n] = "running"
    /\ mdns' = [mdns EXCEPT ![n] = @ \cup S]
    /\ view' = [view EXCEPT ![n] = AddToPartialView(@, S)]
    /\ ev' = Event(n, "discovered", <<>>, <<>>, [entries |-> S], "none", "none")
    /\ UNCHANGED <<pc, recipes, net, tasks, queue, out>>

\* MdnsEvent::Expired(S) at node n: mDNS has dropped the entries of S
Expired(n, S) ==
    /\ pc[n] = "running"
    /\ S \subseteq mdns[n]
    /\ mdns' = [mdns EXCEPT ![n] = @ \ S]
    /\ view' = [view EXCEPT ![n] = @ \ ExpiredRemovals(mdns[n] \ S, S)]
    /\ ev' = Event(n, "expired", <<>>, <<>>, NoData, "none", "none")
    /\ UNCHANGED <<pc, recipes, net, tasks, queue, out>>

Entries(n, addrs) == (SUBSET (Peers(n) \X addrs)) \ {{}}

\* ---------------------------------------------------------------- responses
\* respond_with_public_recipes called with the given receiver: a task is spawned
CallRespond(n, receiver) ==
    /\ pc[n] = "running"
    /\ Len(tasks[n]) < MaxTasks
    /\ tasks' = [tasks EXCEPT ![n] = Append(@, receiver)]
    /\ ev' = Event(n, "respond", <<>>, receiver, NoData, "none", "none")
    /\ UNCHANGED <<pc, recipes, mdns, view, net, queue, out>>

IsPublic(r) == r.public

\* a response built without the filter
AllRecipes(catalog) == catalog

\* the data of the response the task builds
PublicRecipes(catalog) == SelectSeq(catalog, IsPublic)

RemoveAt(s, i) == SubSeq(s, 1, i - 1) \o SubSeq(s, i + 1, Len(s))

\* the body of a spawned task: read the catalog, send the response on the channel
TaskRun(n, i, rd) ==
    /\ pc[n] = "running"
    /\ i \in DOMAIN tasks[n]
    /\ rd => Len(queue[n]) < MaxQueue
    /\ tasks' = [tasks EXCEPT ![n] = RemoveAt(@, i)]
    /\ queue' = [queue EXCEPT ![n] =
                    IF rd
                    THEN Append(@, [mode |-> ModeAll, data |-> PublicRecipes(recipes[n]),
                                    receiver |-> tasks[n][i]])
                    ELSE @]
    /\ ev' = Event(n, "task", <<>>, tasks[n][i], NoData,
                   IF rd THEN "none" ELSE "error_fetching_local_recipes",
                   IF rd THEN "ok" ELSE "read_failed")
    /\ UNCHANGED <<pc, recipes, mdns, view, net, out>>

\* what the loop publishes for a response it drew from the channel
LoopPublishes(resp) == {}

\* the loop draws a response from the channel: EventType::Response(_resp) => {}
LoopResponse(n) ==
    /\ pc[n] = "running"
    /\ queue[n] # <<>>
    /\ queue' = [queue EXCEPT ![n] = Tail(@)]
    /\ net' = net \cup FloodsubPublish(n, LoopPublishes(Head(queue[n])))
    /\ ev' = Event(n, "response", <<>>, Head(queue[n]).receiver,
                   JsonListResponse(Head(queue[n])), "none", "none")
    /\ UNCHANGED <<pc, recipes, mdns, view, tasks, out>>

\* ---------------------------------------------------------------- specifications
\* one node, A, with its user, its discovery of B and the traffic of the topic
Next ==
    \/ \E line \in UserLines("B") : Input("A", line, MaxRecipes)
    \/ Eof("A")
    \/ DeliverForeign("A")
    \/ \E S \in Entries("A", Addrs) : Discovered("A", S)
    \/ \E S \in Entries("A", Addrs) : Expired("A", S)

Spec == Init /\ [][Next]_vars

\* the same node with respond_with_public_recipes called, its tasks run and the
\* loop drawing from the channel
NextTask ==
    \/ \E line \in TaskLines : Input("A", line, MaxRecipes)
    \/ \E S \in Entries("A", {1}) : Discovered("A", S)
    \/ \E r \in {PeerIdString("B"), PeerIdString(Foreign)} : CallRespond("A", r)
    \/ \E i \in 1..MaxTasks, rd \in BOOLEAN : TaskRun("A", i, rd)
    \/ LoopResponse("A")

SpecTask == Init /\ [][NextTask]_vars

\* two nodes on one network, no other peer
NextNet ==
    \E n \in Nodes :
        \/ \E line \in NetLines : Input(n, line, MaxNetRecipes)
        \/ DeliverNet(n)
        \/ \E S \in Entries(n, {1}) : Discovered(n, S)
        \/ \E S \in Entries(n, {1}) : Expired(n, S)

SpecNet == Init /\ [][NextNet]_vars

\* two nodes whose mDNS reports nothing
NextIsolated ==
    \E n \in Nodes :
        \/ \E line \in UserLines(CHOOSE p \in Peers(n) : TRUE) : Input(n, line, MaxNetRecipes)
        \/ Eof(n)

SpecIsolated == Init /\ [][NextIsolated]_vars

\* ---------------------------------------------------------------- properties
\* a payload that is a ListRequest: it has the request's shape and is no response
IsListRequest(p) == DecodeRequest(p).ok /\ ~DecodeResponse(p).ok

\* the step just taken was node n handling a ListRequest from the topic
HandledRequest(n) ==
    /\ ev'.kind = "message"
    /\ ev'.node = n
    /\ IsListRequest(ev'.data)

\* C1: when the node whose identity is X receives a ListRequest with mode
\* One(X), it starts exactly one response for that request, addressed to the
\* peer the request came from.
C1_OneForSelfAnswered ==
    [][\A n \in Nodes :
          (HandledRequest(n) /\ ev'.data.mode = ModeOne(PeerIdString(n)))
             => tasks'[n] = Append(tasks[n], ev'.src)]_vars

\* C2: when a node receives a ListRequest with mode All from peer S, it starts
\* a response with receiver S, whatever its identity and its catalog.
C2_AllAnswered ==
    [][\A n \in Nodes :
          (HandledRequest(n) /\ ev'.data.mode = ModeAll)
             => tasks'[n] = Append(tasks[n], ev'.src)]_vars

\* C3: a ListResponse the event loop draws from the response queue is
\* serialized and published on the topic: each peer of the partial view is sent
\* it, so with a peer in the view it is never discarded without a publish.
C3_DequeuedResponsePublished ==
    [][\A n \in Nodes :
          (ev'.kind = "response" /\ ev'.node = n)
             => \A p \in view[n] :
                   [to |-> p, source |-> PeerIdString(n), data |-> ev'.data] \in net']_vars

\* the payload a node publishes for the line "ls r all"
LsRAllPayload == CHOOSE d \in handle_list_recipes(<<>>, LsRAll, TRUE).publish : TRUE

\* C4: node A holds exactly record 0, published; node B has discovered A and
\* typed "ls r all". When A handles the request B published, A starts a
\* response to B (the response whose one record B's output is to show).
C4_EndToEndAnswered ==
    [][( /\ ev'.kind = "message"
         /\ ev'.node = "A"
         /\ ev'.src = PeerIdString("B")
         /\ ev'.data = LsRAllPayload
         /\ recipes["A"] = <<Soup(0, TRUE)>> )
          => tasks'["A"] = Append(tasks["A"], PeerIdString("B"))]_vars

\* C5: when a node whose identity is not X receives a ListRequest with mode
\* One(X), no response task is started, nothing is queued and nothing is
\* published.
C5_OneForOtherIgnored ==
    [][\A n \in Nodes :
          ( /\ HandledRequest(n)
            /\ ev'.data.mode.tag = "One"
            /\ ev'.data.mode.id # PeerIdString(n) )
             => /\ tasks' = tasks
                /\ queue' = queue
                /\ net' \subseteq net]_vars

C5_Witness ==
    /\ ev.kind = "message"
    /\ ev.node = "A"
    /\ ev.data = JsonListRequest(ModeOne(PeerIdString("B")))
    /\ tasks["A"] = <<>>
    /\ queue["A"] = <<>>

\* C6: the records a node surfaces change only when it receives a ListResponse
\* whose receiver is its own identity, and then every record of the response is
\* surfaced; a ListResponse with another receiver surfaces nothing.
C6_ResponseMatching ==
    [][\A n \in Nodes :
          LET resp == DecodeResponse(ev'.data)
              mine == /\ ev'.kind = "message"
                      /\ ev'.node = n
                      /\ resp.ok
                      /\ resp.receiver = PeerIdString(n)
          IN  out'[n] = IF mine THEN out[n] \cup Range(resp.data) ELSE out[n]]_vars

C6_Witness ==
    /\ ev.kind = "message"
    /\ ev.node = "A"
    /\ DecodeResponse(ev.data).ok
    /\ DecodeResponse(ev.data).receiver = PeerIdString("B")
    /\ DecodeResponse(ev.data).data # <<>>
    /\ out["A"] = {}

\* C7: from an empty catalog, the records created have the ids 0, 1, 2, ... in
\* creation order, whatever publishes come in between: the i-th record of the
\* catalog has id i - 1, so no two records share an id.
C7_IdsCountFromZero ==
    \A n \in Nodes : \A i \in DOMAIN recipes[n] : recipes[n][i].id = i - 1

C7_Witness ==
    /\ Len(recipes["A"]) = 2
    /\ recipes["A"][1].public
    /\ ~recipes["A"][2].public
    /\ ev.report = "created"

\* the line is a publish command whose id no record of the catalog has
PublishOfUnknownId(line, catalog) ==
    LET rest == StripPrefix(line, PublishR)
        id == ParseUsize(Trim(rest.rest))
    IN  /\ line # LsP
        /\ ~StartsWith(line, LsR)
        /\ ~StartsWith(line, CreateR)
        /\ rest.some
        /\ id.ok
        /\ \A i \in DOMAIN catalog : catalog[i].id # id.val

\* C8: a publish command for an id no catalog record has leaves the catalog
\* unchanged and the loop running, and when the Store calls succeed it is
\* reported as a successful publication, not as an error.
C8_PublishUnknownIdNoOp ==
    [][\A n \in Nodes :
          ( /\ ev'.kind = "input"
            /\ ev'.node = n
            /\ PublishOfUnknownId(ev'.line, recipes[n]) )
             => /\ recipes' = recipes
                /\ pc'[n] = "running"
                /\ ev'.report # "panic_invalid_id"
                /\ ev'.io = "ok" => ev'.report = "successful_publication"]_vars

C8_Witness ==
    /\ ev.kind = "input"
    /\ ev.line = PublishId("7")
    /\ ev.io = "ok"
    /\ Len(recipes["A"]) = 1
    /\ ~recipes["A"][1].public

\* the line matches none of the known commands
UnknownCommand(line) ==
    /\ line # LsP
    /\ ~StartsWith(line, LsR)
    /\ ~StartsWith(line, CreateR)
    /\ ~StartsWith(line, PublishR)

\* C9: an input line that matches none of the known commands changes no state
\* and leaves the event loop running.
C9_UnknownCommandRecoverable ==
    [][\A n \in Nodes :
          (ev'.kind = "input" /\ ev'.node = n /\ UnknownCommand(ev'.line))
             => /\ pc'[n] = "running"
                /\ UNCHANGED <<recipes, mdns, view, net, tasks, queue, out>>]_vars

\* a create with fewer than three pipe-delimited fields, or a publish whose id
\* is not a number
MalformedCommand(line) ==
    \/ /\ line # LsP
       /\ ~StartsWith(line, LsR)
       /\ StartsWith(line, CreateR)
       /\ Len(Split(StripPrefix(line, CreateR).rest, "|")) < 3
    \/ /\ line # LsP
       /\ ~StartsWith(line, LsR)
       /\ ~StartsWith(line, CreateR)
       /\ StartsWith(line, PublishR)
       /\ ~ParseUsize(Trim(StripPrefix(line, PublishR).rest)).ok

\* C10: a malformed user command mutates no state and leaves the event loop
\* running.
C10_MalformedCommandRecoverable ==
    [][\A n \in Nodes :
          (ev'.kind = "input" /\ ev'.node = n /\ MalformedCommand(ev'.line))
             => /\ pc'[n] = "running"
                /\ UNCHANGED <<recipes, mdns, view, net, tasks, queue, out>>]_vars

\* C11: a Store read or write that fails, in a command or in a response task,
\* is reported and leaves the event loop running.
C11_StoreFailureRecoverable ==
    [][\A n \in Nodes :
          (ev'.node = n /\ ev'.io \in {"read_failed", "write_failed"})
             => /\ pc'[n] = "running"
                /\ ev'.report \in {"error_publishing", "error_fetching_local_recipes",
                                   "error_creating_recipe"}]_vars

\* C12: when standard input ends the event loop exits cleanly: the node
\* terminates without a panic.
C12_EndOfInputExitsCleanly ==
    [][\A n \in Nodes :
          (ev'.kind = "eof" /\ ev'.node = n) => pc'[n] = "exited"]_vars

\* C13: with a peer in the partial view, the line "ls r all" publishes a
\* ListRequest with mode All, and the line "ls r <peerId>" publishes a
\* ListRequest with mode One(peerId), the target being the peer id typed.
C13_ListCommandsPublishRequests ==
    [][\A n \in Nodes : \A p \in view[n] :
          (ev'.kind = "input" /\ ev'.node = n)
             => /\ ev'.line = LsRAll
                   => [to |-> p, source |-> PeerIdString(n),
                       data |-> JsonListRequest(ModeAll)] \in net'
                /\ \A q \in Nodes :
                      ev'.line = LsRPeer(q)
                         => [to |-> p, source |-> PeerIdString(n),
                             data |-> JsonListRequest(ModeOne(PeerIdString(q)))] \in net']_vars

\* C14: the line "ls r" causes no network activity: nothing is published, the
\* Store is read and the local catalog is rendered (or the read's failure
\* reported).
C14_ListLocalNoNetwork ==
    [][\A n \in Nodes :
          (ev'.kind = "input" /\ ev'.node = n /\ ev'.line = LsR)
             => /\ net' = net
                /\ ev'.report \in {"local_recipes", "error_fetching_local_recipes"}]_vars

\* C15: an inbound payload that decodes as neither a ListResponse nor a
\* ListRequest starts no response, surfaces no record, changes no state and
\* leaves the node running; nothing is logged for it.
C15_UndecodableDropped ==
    [][\A n \in Nodes :
          ( /\ ev'.kind = "message"
            /\ ev'.node = n
            /\ ~DecodeResponse(ev'.data).ok
            /\ ~DecodeRequest(ev'.data).ok )
             => /\ pc'[n] = "running"
                /\ ev'.report = "none"
                /\ net' \subseteq net
                /\ UNCHANGED <<recipes, mdns, view, tasks, queue, out>>]_vars

C15_Witness ==
    /\ ev.kind = "message"
    /\ ev.node = "A"
    /\ ev.data = JunkPayload
    /\ pc["A"] = "running"

\* C16: whatever Discovered and Expired events a node has handled, every peer
\* mDNS still reports is in its floodsub partial view: Expired removes a peer
\* only when mDNS holds no entry of it any more.
C16_ReportedPeersInView ==
    \A n \in Nodes : \A e \in mdns[n] : e[1] \in view[n]

C16_Witness ==
    /\ ev.kind = "expired"
    /\ ev.node = "A"
    /\ mdns["A"] # {}
    /\ "B" \in view["A"]

\* C17: handling a Discovered event for peers the node has already handled a
\* Discovered event for (they are in the partial view) leaves the partial view
\* as the first handling left it.
C17_DiscoveredIdempotent ==
    [][\A n \in Nodes :
          ( /\ ev'.kind = "discovered"
            /\ ev'.node = n
            /\ \A e \in ev'.data.entries : e[1] \in view[n] )
             => view'[n] = view[n]]_vars

C17_Witness ==
    /\ ev.kind = "discovered"
    /\ ev.node = "A"
    /\ ev.data = [entries |-> {<<"B", 1>>}]
    /\ mdns["A"] = {<<"B", 1>>, <<"B", 2>>}
    /\ view["A"] = {"B"}

\* C18: two nodes whose mDNS reports nothing: "ls p" prints no peer, no request
\* leaves either node and no record of a response is ever surfaced.
C18_IsolatedNodes ==
    /\ net = {}
    /\ \A n \in Nodes :
          /\ out[n] = {}
          /\ (ev.kind = "input" /\ ev.node = n /\ ev.line = LsP) => ev.data.peers = {}

C18_Witness ==
    /\ ev.kind = "input"
    /\ ev.node = "B"
    /\ ev.line = LsRAllGlued
    /\ recipes["A"] = <<Soup(0, TRUE)>>
    /\ pc["A"] = "running"

\* the id a publish line names
PublishedId(line) == ParseUsize(Trim(StripPrefix(line, PublishR).rest)).val

\* new is old with one record, not public, appended
AppendsPrivateRecord(old, new) ==
    /\ Len(new) = Len(old) + 1
    /\ SubSeq(new, 1, Len(old)) = old
    /\ ~new[Len(new)].public

\* new is old but for the public flag, set on records with the given id only
SetsFlagOnly(old, new, id) ==
    /\ Len(new) = Len(old)
    /\ \A i \in DOMAIN old :
          \/ new[i] = old[i]
          \/ old[i].id = id /\ new[i] = [old[i] EXCEPT !.public = TRUE]

\* C19: a step changes a catalog only by a successful create, which appends one
\* record with public = false at the end, or by a publish, which changes
\* nothing but the public flag of the records with the given id; no record is
\* deleted, reordered or changed in its id, name, ingredients or instructions.
C19_CatalogAppendOrFlag ==
    [][\A n \in Nodes :
          IF ev'.kind = "input" /\ ev'.node = n /\ ev'.report = "created"
          THEN AppendsPrivateRecord(recipes[n], recipes'[n])
          ELSE IF ev'.kind = "input" /\ ev'.node = n
                  /\ ev'.report = "successful_publication"
          THEN SetsFlagOnly(recipes[n], recipes'[n], PublishedId(ev'.line))
          ELSE recipes'[n] = recipes[n]]_vars

C19_Witness ==
    /\ ev.kind = "input"
    /\ ev.line = PublishId("0")
    /\ ev.report = "successful_publication"
    /\ Len(recipes["A"]) = 2
    /\ recipes["A"][1].public
    /\ ~recipes["A"][2].public

\* C20: every record of a ListResponse in the response queue or on the network
\* is a record of the catalog with public = true, and a record whose public
\* flag is true keeps it: a record never published never leaves the node.
C20_OnlyPublicRecordsLeave ==
    /\ [](\A n \in Nodes :
            /\ \A i \in DOMAIN queue[n] : \A r \in Range(queue[n][i].data) :
                  r.public /\ r \in Range(recipes[n])
            /\ \A m \in net :
                  (m.source = PeerIdString(n) /\ DecodeResponse(m.data).ok)
                     => \A r \in Range(DecodeResponse(m.data).data) :
                           r.public /\ r \in Range(recipes[n]))
    /\ [][\A n \in Nodes : \A i \in DOMAIN recipes[n] :
             recipes[n][i].public
                => i \in DOMAIN recipes'[n] /\ recipes'[n][i].public]_vars

C20_Witness ==
    /\ Len(recipes["A"]) = 2
    /\ recipes["A"][1].public
    /\ ~recipes["A"][2].public
    /\ Len(queue["A"]) = 1
    /\ queue["A"][1].data = <<recipes["A"][1]>>

\* C21: a node that receives a payload of the response shape, whoever its
\* receiver is, spawns no responding task, queues no response and publishes
\* nothing: responses are never answered, so no two nodes answer each other
\* without end.
C21_ResponseNeverAnswered ==
    [][\A n \in Nodes :
          (ev'.kind = "message" /\ ev'.node = n /\ DecodeResponse(ev'.data).ok)
             => /\ tasks' = tasks
                /\ queue' = queue
                /\ net' = net
                /\ ev'.report # "received_req"]_vars

\* a response addressed to another peer, of mode ALL as every response the
\* program builds, has been handled
C21_Witness ==
    /\ ev.kind = "message"
    /\ DecodeResponse(ev.data).ok
    /\ DecodeRequest(ev.data).ok
    /\ ev.data.mode = ModeAll
    /\ ev.data.receiver # PeerIdString(ev.node)
    /\ pc[ev.node] = "running"

====
